---- MODULE Spec2Model ----
(***************************************************************************)
(* supreme-pancake: the query execution engine (Query) and the batch       *)
(* runner (GoogleSheet.get_queries / execute_all_queries).                 *)
(*                                                                         *)
(* Python values are tagged one-field records, so that values of different *)
(* Python types are different and comparable:                              *)
(*   [int |-> n]   int          [str |-> s]   str      [none |-> TRUE] None *)
(*   [list |-> q]  list         [dict |-> f]  dict (f: keys -> values)      *)
(*   [dec |-> <<n, d>>]  decimal.Decimal holding the rational n/d          *)
(* A call either returns, [ret |-> v], or raises, [exc |-> type, ...].     *)
(***************************************************************************)
EXTENDS Integers, Sequences, FiniteSets, TLC

\* ------------------------------------------------------------------ bounds
MaxRows == 3
MaxRequests == 3

\* ------------------------------------------------- error codes (query.py)
UNKNOWN_ERROR == -999
INVALID_QUERY == -100
INVALID_OR_UNSUPPORTED_HTTP_METHOD == -101
JSONPATH_SYNTAX_ERROR == -111
AGGREGATION_INVALID_OPERATOR == -121
AGGREGATION_WRONG_DATATYPE == -122
AGGREGATION_ARITHMETIC_ERROR == -123

\* ------------------------------------------------------------ Python values
PyInt(n) == [int |-> n]
PyStr(s) == [str |-> s]
PyNone == [none |-> TRUE]
PyList(q) == [list |-> q]
PyDict(f) == [dict |-> f]
PyDec(n, d) == [dec |-> <<n, d>>]
PyEmptyDict == PyDict(<<>>)

IsInt(v) == DOMAIN v = {"int"}
IsStr(v) == DOMAIN v = {"str"}
IsNone(v) == DOMAIN v = {"none"}
IsList(v) == DOMAIN v = {"list"}
IsDict(v) == DOMAIN v = {"dict"}
IsDec(v) == DOMAIN v = {"dec"}

TypeName(v) ==
  IF IsInt(v) THEN "int"
  ELSE IF IsStr(v) THEN "str"
  ELSE IF IsNone(v) THEN "NoneType"
  ELSE IF IsList(v) THEN "list"
  ELSE IF IsDict(v) THEN "dict"
  ELSE "Decimal"

\* bool(v)
Truthy(v) ==
  IF IsNone(v) THEN FALSE
  ELSE IF IsInt(v) THEN v.int # 0
  ELSE IF IsStr(v) THEN v.str # ""
  ELSE IF IsList(v) THEN Len(v.list) > 0
  ELSE IF IsDict(v) THEN DOMAIN v.dict # {}
  ELSE TRUE

\* F(x), with x evaluated once
Once(x, F(_)) == CHOOSE out \in {F(v) : v \in {x}} : TRUE

Ret(v) == [ret |-> v]
Raise(type, text) == [exc |-> type, text |-> text]
RaiseQueryError(code, message) == [exc |-> "QueryError", code |-> code, message |-> message]
Raised(r) == "exc" \in DOMAIN r

\* key in container. A str container is a substring test; no str of this
\* model contains another one, so it is equality here.
PyContains(container, key) ==
  IF IsDict(container) THEN Ret(key \in DOMAIN container.dict)
  ELSE IF IsList(container)
    THEN Ret(\E i \in 1..Len(container.list) : container.list[i] = PyStr(key))
  ELSE IF IsStr(container) THEN Ret(container.str = key)
  ELSE Raise("TypeError", "argument of type '" \o TypeName(container) \o "' is not iterable")

\* container[key], key a str
PyGetItem(container, key) ==
  IF IsDict(container)
    THEN IF key \in DOMAIN container.dict
           THEN Ret(container.dict[key])
           ELSE Raise("KeyError", "'" \o key \o "'")
  ELSE IF IsList(container)
    THEN Raise("TypeError", "list indices must be integers or slices, not str")
  ELSE IF IsStr(container)
    THEN Raise("TypeError", "string indices must be integers, not 'str'")
  ELSE Raise("TypeError", "'" \o TypeName(container) \o "' object is not subscriptable")

\* container[key] = value, key a str
PySetItem(container, key, value) ==
  IF IsDict(container)
    THEN Ret(PyDict([x \in DOMAIN container.dict \cup {key} |->
                     IF x = key THEN value ELSE container.dict[x]]))
  ELSE IF IsList(container)
    THEN Raise("TypeError", "list indices must be integers or slices, not str")
  ELSE Raise("TypeError",
             "'" \o TypeName(container) \o "' object does not support item assignment")

\* ------------------------------------------------------------ Query.__init__
\* self is the object's attribute dictionary: an attribute never assigned is
\* not in its domain.
SetAttr(self, name, value) ==
  [x \in DOMAIN self \cup {name} |-> IF x = name THEN value ELSE self[x]]

\* The text of a worksheet cell holding JSON: json.loads gives the value back,
\* or raises on a text that is not JSON.
JsonText(v) == [text |-> v]
NotJson == [text |-> [garbage |-> TRUE]]
JsonLoads(s) ==
  IF s = NotJson
    THEN Raise("JSONDecodeError", "Expecting value: line 1 column 1 (char 0)")
  ELSE Ret(s.text)

\* parameter_list[i], 0-based
RowField(parameter_list, i) ==
  IF i + 1 <= Len(parameter_list)
    THEN Ret(parameter_list[i + 1])
    ELSE Raise("IndexError", "list index out of range")

\* One statement of the try block: r is [self |-> ...] while no statement
\* raised, and carries exc once one did.
Then(r, F(_)) == Once(r, LAMBDA v : IF Raised(v) THEN v ELSE F(v.self))
Fail(self, e) == [self |-> self, exc |-> e.exc, text |-> e.text]

\* if key not in self._http_parameters: raise ValueError
RequireTop(self, key) ==
  LET has == PyContains(self.http_parameters, key)
  IN IF Raised(has) THEN Fail(self, has)
     ELSE IF ~has.ret THEN Fail(self, Raise("ValueError", ""))
     ELSE [self |-> self]

\* DefaultTop with the assignment left out
DefaultTopSkipped(self, key, value) == [self |-> self]

\* if key not in self._http_parameters: self._http_parameters[key] = value
DefaultTop(self, key, value) ==
  LET has == PyContains(self.http_parameters, key)
      put == PySetItem(self.http_parameters, key, value)
  IN IF Raised(has) THEN Fail(self, has)
     ELSE IF has.ret THEN [self |-> self]
     ELSE IF Raised(put) THEN Fail(self, put)
     ELSE [self |-> SetAttr(self, "http_parameters", put.ret)]

\* if key not in self._http_parameters[outer]: raise ValueError
RequireIn(self, outer, key) ==
  LET sub == PyGetItem(self.http_parameters, outer)
      has == PyContains(sub.ret, key)
  IN IF Raised(sub) THEN Fail(self, sub)
     ELSE IF Raised(has) THEN Fail(self, has)
     ELSE IF ~has.ret THEN Fail(self, Raise("ValueError", ""))
     ELSE [self |-> self]

\* if key not in self._http_parameters[outer]:
\*     self._http_parameters[outer][key] = value
DefaultIn(self, outer, key, value) ==
  LET sub == PyGetItem(self.http_parameters, outer)
      has == PyContains(sub.ret, key)
      put == PySetItem(sub.ret, key, value)
  IN IF Raised(sub) THEN Fail(self, sub)
     ELSE IF Raised(has) THEN Fail(self, has)
     ELSE IF has.ret THEN [self |-> self]
     ELSE IF Raised(put) THEN Fail(self, put)
     ELSE [self |-> SetAttr(self, "http_parameters",
                            PySetItem(self.http_parameters, outer, put.ret).ret)]

LoadHttpParameters(self, parameter_list) ==
  LET field == RowField(parameter_list, 0)
      loaded == JsonLoads(field.ret)
  IN IF Raised(field) THEN Fail(self, field)
     ELSE IF Raised(loaded) THEN Fail(self, loaded)
     ELSE [self |-> SetAttr(self, "http_parameters", loaded.ret)]

AssignField(self, name, parameter_list, i) ==
  LET field == RowField(parameter_list, i)
  IN IF Raised(field) THEN Fail(self, field)
     ELSE [self |-> SetAttr(self, name, field.ret)]

QueryTryBlock(parameter_list, secrets) ==
  LET s65 == LoadHttpParameters(<<>>, parameter_list)
      s66 == Then(s65, LAMBDA s : RequireTop(s, "request"))
      s68 == Then(s66, LAMBDA s : DefaultIn(s, "request", "data", PyEmptyDict))
      s70 == Then(s68, LAMBDA s : DefaultIn(s, "request", "headers", PyEmptyDict))
      s72 == Then(s70, LAMBDA s : RequireIn(s, "request", "method"))
      s74 == Then(s72, LAMBDA s : DefaultIn(s, "request", "parameters", PyEmptyDict))
      s76 == Then(s74, LAMBDA s : RequireIn(s, "request", "url"))
      s78 == Then(s76, LAMBDA s : DefaultTop(s, "response", PyEmptyDict))
      s80 == Then(s78, LAMBDA s : DefaultIn(s, "response", "data", PyNone))
      s82 == Then(s80, LAMBDA s : DefaultIn(s, "response", "next", PyNone))
      s84 == Then(s82, LAMBDA s : AssignField(s, "jsonpath_query", parameter_list, 1))
      s85 == Then(s84, LAMBDA s : AssignField(s, "aggregation", parameter_list, 2))
      s86 == Then(s85, LAMBDA s : [self |-> SetAttr(s, "secrets", secrets)])
  IN s86

\* Query(parameter_list, secrets): never raises; _valid records the outcome.
QueryInit(parameter_list, secrets) ==
  Once(QueryTryBlock(parameter_list, secrets),
       LAMBDA r : SetAttr(r.self, "valid", ~Raised(r)))


\* ------------------------------------------------------------- attribute access
\* x is what a call gave: when it raised, the exception goes on; else F of the
\* value it returned.
Bind(x, F(_)) == Once(x, LAMBDA v : IF Raised(v) THEN v ELSE F(v.ret))

\* self._<name>: AttributeError when the constructor never assigned it
GetAttr(self, name) ==
  IF name \in DOMAIN self
    THEN Ret(self[name])
    ELSE Raise("AttributeError", "'Query' object has no attribute '_" \o name \o "'")

\* self._http_parameters[a][b]
HttpParameter(self, a, b) ==
  Bind(GetAttr(self, "http_parameters"), LAMBDA hp :
    Bind(PyGetItem(hp, a), LAMBDA x : PyGetItem(x, b)))

\* ------------------------------------------------------------------- jsonpath_ng
\* The expressions of this model are the field paths "$.data" and "$.next" and
\* the malformed "$[": parse() raises on the last one.
JsonPathParse(expr) ==
  IF expr = "$.data" THEN Ret([field |-> "data"])
  ELSE IF expr = "$.next" THEN Ret([field |-> "next"])
  ELSE Raise("JsonPathParserError", "Parse error near the end of string!")

\* [match.value for match in jsonpath_expr.find(datum)]: a field path matches
\* a dict that has the field and nothing else.
JsonPathFind(path, datum) ==
  IF IsDict(datum) /\ path.field \in DOMAIN datum.dict
    THEN <<datum.dict[path.field]>>
    ELSE <<>>

\* parse(value) of a value read from the HTTP parameters
JsonPathParseValue(value) ==
  IF IsStr(value)
    THEN JsonPathParse(value.str)
    ELSE Raise("AttributeError",
               "'" \o TypeName(value) \o "' object has no attribute 'read'")

\* matches[0] if matches, else None
FirstMatch(matches) == IF Len(matches) > 0 THEN Ret(matches[1]) ELSE Ret(PyNone)

\* Query._get_response_json_data
GetResponseJsonData(self, response_json) ==
  Bind(HttpParameter(self, "response", "data"), LAMBDA p :
    IF IsNone(p) THEN Ret(response_json)
    ELSE Bind(JsonPathParseValue(p), LAMBDA e : FirstMatch(JsonPathFind(e, response_json))))

\* Query._get_response_json_next_page
GetResponseJsonNextPage(self, response_json) ==
  Bind(HttpParameter(self, "response", "next"), LAMBDA p :
    IF IsNone(p) THEN Ret(PyNone)
    ELSE Bind(JsonPathParseValue(p), LAMBDA e : FirstMatch(JsonPathFind(e, response_json))))

\* the try block of _execute_jsonpath and its handler; e is what parse() gave
JsonpathMatches(e, data) ==
  IF Raised(e)
    THEN RaiseQueryError(JSONPATH_SYNTAX_ERROR, e.text)
    ELSE Ret(PyList(JsonPathFind(e.ret, data)))

\* Query._execute_jsonpath
ExecuteJsonpath(self, data) ==
  Bind(GetAttr(self, "jsonpath_query"), LAMBDA q :
    IF q = "" THEN Ret(data) ELSE JsonpathMatches(JsonPathParse(q), data))

\* ------------------------------------------------------------------ aggregation
\* assert_isinstance(obj, List)
AssertIsList(obj) ==
  IF IsList(obj)
    THEN Ret(PyNone)
    ELSE RaiseQueryError(AGGREGATION_WRONG_DATATYPE,
           "Type of data is <class '" \o TypeName(obj) \o "'>, excpected typing.List")

\* The str values that decimal.Decimal accepts, among the strs of this model.
Numerals == ("2" :> 2) @@ ("3" :> 3)

\* Decimal(x)
DecimalOf(v) ==
  IF IsInt(v) THEN Ret(PyDec(v.int, 1))
  ELSE IF IsStr(v)
    THEN IF v.str \in DOMAIN Numerals
           THEN Ret(PyDec(Numerals[v.str], 1))
           ELSE Raise("InvalidOperation", "[<class 'decimal.ConversionSyntax'>]")
  ELSE IF IsList(v)
    THEN Raise("ValueError", "argument must be a sequence of length 3")
  ELSE Raise("TypeError",
             "conversion from " \o TypeName(v) \o " to Decimal is not supported")

\* [Decimal(x) for x in data]: the first element that does not convert raises
DecimalList(q) ==
  LET bad == {i \in 1..Len(q) : Raised(DecimalOf(q[i]))}
      first == CHOOSE i \in bad : \A j \in bad : i <= j
  IN IF bad # {}
       THEN DecimalOf(q[first])
       ELSE Ret([i \in 1..Len(q) |-> DecimalOf(q[i]).ret.dec[1]])

RECURSIVE Gcd(_, _)
Gcd(a, b) == IF b = 0 THEN a ELSE Gcd(b, a % b)
Abs(n) == IF n < 0 THEN -n ELSE n

\* the Decimal n/d, in lowest terms
Ratio(n, d) ==
  LET g == Gcd(Abs(n), Abs(d))
  IN PyDec(n \div g, d \div g)

RECURSIVE SumSeq(_)
SumSeq(q) == IF q = <<>> THEN 0 ELSE q[1] + SumSeq(Tail(q))
SumSquares(q) == SumSeq([i \in 1..Len(q) |-> q[i] * q[i]])

\* sorted(q)[k - 1]
KthSmallest(q, k) ==
  CHOOSE v \in {q[i] : i \in 1..Len(q)} :
    /\ Cardinality({i \in 1..Len(q) : q[i] < v}) < k
    /\ Cardinality({i \in 1..Len(q) : q[i] <= v}) >= k

Maximum(q) == CHOOSE v \in {q[i] : i \in 1..Len(q)} : \A i \in 1..Len(q) : q[i] <= v
Minimum(q) == CHOOSE v \in {q[i] : i \in 1..Len(q)} : \A i \in 1..Len(q) : v <= q[i]

\* statistics.mean
Mean(q) ==
  IF Len(q) < 1
    THEN Raise("StatisticsError", "mean requires at least one data point")
    ELSE Ret(Ratio(SumSeq(q), Len(q)))

\* statistics.median
Median(q) ==
  LET n == Len(q)
  IN IF n = 0 THEN Raise("StatisticsError", "no median for empty data")
     ELSE IF n % 2 = 1 THEN Ret(PyDec(KthSmallest(q, (n + 1) \div 2), 1))
     ELSE Ret(Ratio(KthSmallest(q, n \div 2) + KthSmallest(q, n \div 2 + 1), 2))

\* statistics.variance: the sample variance
Variance(q) ==
  LET n == Len(q)
  IN IF n < 2
       THEN Raise("StatisticsError", "variance requires at least two data points")
       ELSE Ret(Ratio(n * SumSquares(q) - SumSeq(q) * SumSeq(q), n * (n - 1)))

\* statistics.stdev: the square root of the sample variance, kept as a term
Stdev(q) ==
  IF Len(q) < 2
    THEN Raise("StatisticsError", "stdev requires at least two data points")
    ELSE Ret([sqrt |-> Variance(q).ret])

\* max, min, sum
BuiltinMax(q) ==
  IF Len(q) = 0 THEN Raise("ValueError", "max() arg is an empty sequence")
  ELSE Ret(PyDec(Maximum(q), 1))
BuiltinMin(q) ==
  IF Len(q) = 0 THEN Raise("ValueError", "min() arg is an empty sequence")
  ELSE Ret(PyDec(Minimum(q), 1))
BuiltinSum(q) == IF Len(q) = 0 THEN Ret(PyInt(0)) ELSE Ret(PyDec(SumSeq(q), 1))

NumericOperators == {"AVG", "MAX", "MED", "MIN", "STDEV", "SUM", "VAR"}

\* the operator table of _execute_aggregation, applied
ApplyFunction(operator, q) ==
  IF operator = "AVG" THEN Mean(q)
  ELSE IF operator = "MAX" THEN BuiltinMax(q)
  ELSE IF operator = "MED" THEN Median(q)
  ELSE IF operator = "MIN" THEN BuiltinMin(q)
  ELSE IF operator = "STDEV" THEN Stdev(q)
  ELSE IF operator = "SUM" THEN BuiltinSum(q)
  ELSE Variance(q)

\* Query._execute_aggregation
ExecuteAggregation(self, data) ==
  Bind(GetAttr(self, "aggregation"), LAMBDA a :
    IF a = "" THEN Ret(data)
    ELSE IF a = "COUNT"
      THEN Bind(AssertIsList(data), LAMBDA ok : Ret(PyInt(Len(data.list))))
    ELSE IF a \in NumericOperators
      THEN Bind(AssertIsList(data), LAMBDA ok :
             Bind(DecimalList(data.list), LAMBDA decimals : ApplyFunction(a, decimals)))
    ELSE RaiseQueryError(AGGREGATION_INVALID_OPERATOR, "Unknown aggregation operator " \o a))

\* ----------------------------------------------------------------- HTTP transport
\* What requests.get / requests.post does with one request: it returns a
\* response [status, reason, body] or raises [raises, text, value_error], where
\* value_error says whether the exception class derives from ValueError.
URLs == {"u1", "u2"}

DocA == PyDict([data |-> PyInt(7), next |-> PyStr("u2")])
DocB == PyDict([data |-> PyStr("abc"), next |-> PyStr("u1")])
DocC == PyDict([data |-> PyInt(5)])
DocD == PyDict([data |-> PyList(<<PyInt(1), PyStr("2")>>), next |-> PyNone])
DocE == PyList(<<PyInt(3), PyInt(4)>>)
DocF == PyDict([next |-> PyStr("")])
Docs == {DocA, DocB, DocC, DocD, DocE, DocF}

Response(status, reason, body) == [status |-> status, reason |-> reason, body |-> body]
Ok(doc) == Response(200, "OK", JsonText(doc))
NotFound == Response(404, "Not Found", NotJson)
ServerError == Response(500, "Internal Server Error", JsonText(DocC))
NotModified == Response(304, "Not Modified", NotJson)
MultipleChoices == Response(300, "Multiple Choices", JsonText(DocC))
ConnectionFailure ==
  [raises |-> "ConnectionError", text |-> "Connection refused", value_error |-> FALSE]
InvalidHeader ==
  [raises |-> "InvalidHeader", text |-> "Invalid return character or leading space in header",
   value_error |-> TRUE]

Outcomes ==
  {Ok(d) : d \in Docs}
    \cup {Response(200, "OK", NotJson), NotFound, ServerError, NotModified, MultipleChoices}
    \cup {ConnectionFailure, InvalidHeader}

IsResponse(o) == "status" \in DOMAIN o

\* RaiseForStatus that lets the 5xx statuses through
RaiseForStatusClientOnly(response) == 400 <= response.status /\ response.status < 500

\* response.raise_for_status(): HTTPError on a 4xx or 5xx status
RaiseForStatus(response) == 400 <= response.status /\ response.status < 600

\* the lookup of the method in the table of _make_request
RequestFunction(method) ==
  IF IsList(method) \/ IsDict(method)
    THEN Raise("TypeError", "unhashable type: '" \o TypeName(method) \o "'")
  ELSE IF method \notin {PyStr("GET"), PyStr("POST")}
    THEN RaiseQueryError(INVALID_OR_UNSUPPORTED_HTTP_METHOD,
           "Unknown or unsopported HTTP method "
             \o (IF IsStr(method) THEN method.str ELSE TypeName(method)))
  ELSE Ret(method)

\* Query._make_request, up to the call of requests.get / requests.post
MakeRequestCall(self, url) ==
  Bind(HttpParameter(self, "request", "method"), LAMBDA m :
    Bind(RequestFunction(m), LAMBDA method :
      Bind(HttpParameter(self, "request", "headers"), LAMBDA headers :
        Bind(HttpParameter(self, "request", "data"), LAMBDA data :
          Bind(HttpParameter(self, "request", "parameters"), LAMBDA params :
            [call |-> [method |-> method, url |-> url, headers |-> headers,
                       data |-> data, params |-> params]])))))

\* Query._make_request, from the return of requests.get / requests.post
MakeRequestReturn(outcome) ==
  IF ~IsResponse(outcome)
    THEN IF outcome.value_error
           THEN RaiseQueryError(INVALID_QUERY, "Could not parse response JSON")
           ELSE Raise(outcome.raises, outcome.text)
  ELSE IF RaiseForStatus(outcome)
    THEN RaiseQueryError(outcome.status, outcome.reason)
  ELSE IF Raised(JsonLoads(outcome.body))
    THEN RaiseQueryError(INVALID_QUERY, "Could not parse response JSON")
  ELSE JsonLoads(outcome.body)

\* ------------------------------------------------------------ Query._execute_rest
\* A run of _execute_rest stops at each HTTP call: it gives [call, result] (the
\* request it is making and the pages collected so far), [ret] or [exc].
Calling(r) == "call" \in DOMAIN r

\* c is what _make_request gave up to its HTTP call
StartCall(c, result) == IF Raised(c) THEN c ELSE [call |-> c.call, result |-> result]

\* PaginationLoop that starts each request with an empty `result`
PaginationLoopForgetful(self, next_page, result) ==
  IF ~Truthy(next_page)
    THEN Ret(PyList(result))
    ELSE Once(MakeRequestCall(self, next_page), LAMBDA c : StartCall(c, <<>>))

\* PaginationLoop with a limit of two pages
PaginationLoopLimited(self, next_page, result) ==
  IF ~Truthy(next_page) \/ Len(result) >= 2
    THEN Ret(PyList(result))
    ELSE Once(MakeRequestCall(self, next_page), LAMBDA c : StartCall(c, result))

\* the head of `while next_page:`
PaginationLoop(self, next_page, result) ==
  IF ~Truthy(next_page)
    THEN Ret(PyList(result))
    ELSE Once(MakeRequestCall(self, next_page), LAMBDA c : StartCall(c, result))

\* from the entry of _execute_rest to its first HTTP call
ExecuteRestEnter(self) ==
  Bind(HttpParameter(self, "response", "next"), LAMBDA next :
    Bind(HttpParameter(self, "request", "url"), LAMBDA url :
      IF Truthy(next)
        THEN PaginationLoop(self, url, <<>>)
        ELSE Once(MakeRequestCall(self, url), LAMBDA c : StartCall(c, <<>>))))

\* from the return of an HTTP call to the next call or to the end
ExecuteRestResume(self, result, outcome) ==
  Bind(MakeRequestReturn(outcome), LAMBDA response_json :
    IF ~Truthy(HttpParameter(self, "response", "next").ret)
      THEN Ret(response_json)
      ELSE Bind(GetResponseJsonData(self, response_json), LAMBDA data :
             Bind(GetResponseJsonNextPage(self, response_json), LAMBDA next_page :
               PaginationLoop(self, next_page, Append(result, data)))))

\* ------------------------------------------------------------------ Query.execute
\* timestamp()
Timestamp(clock) == [utc |-> clock]

\* str(v): the characters where this model has them, the term str(v) otherwise
StrOf(v) ==
  IF IsStr(v) THEN v
  ELSE IF IsInt(v) THEN PyStr(ToString(v.int))
  ELSE IF IsNone(v) THEN PyStr("None")
  ELSE IF IsDec(v) /\ v.dec[2] = 1 THEN PyStr(ToString(v.dec[1]))
  ELSE [strof |-> v]

\* len(s.encode("UTF-8")), of ASCII strs
EncodedLen(s) == IF IsStr(s) THEN PyInt(Len(s.str)) ELSE [lenof |-> s]

\* The stages of one execute(): what each returned or raised, NotRun for a
\* stage an earlier exception skipped. stage1 is what _execute_rest gave.
NotRun == [notrun |-> TRUE]
Returned(r) == "ret" \in DOMAIN r
StagesAfter(self, stage1, stage2) ==
  [stage1 |-> stage1, stage2 |-> stage2,
   stage3 |-> IF Returned(stage2) THEN ExecuteAggregation(self, stage2.ret) ELSE NotRun]
Stages(self, stage1) ==
  Once(IF Returned(stage1) THEN ExecuteJsonpath(self, stage1.ret) ELSE NotRun,
       LAMBDA stage2 : StagesAfter(self, stage1, stage2))

\* the row of a success
SuccessRow(stage3, query_start, query_end) ==
  << StrOf(stage3),
     EncodedLen(StrOf(stage3)),
     IF IsList(stage3) THEN PyInt(Len(stage3.list)) ELSE PyInt(-1),
     PyStr("0"), PyStr(""), query_start, query_end >>

\* the try block of execute(): the success row, or the exception of the stage
\* that raised
TryResult(st, query_start, query_end) ==
  IF Raised(st.stage1) THEN st.stage1
  ELSE IF Raised(st.stage2) THEN st.stage2
  ELSE IF Raised(st.stage3) THEN st.stage3
  ELSE Ret(SuccessRow(st.stage3.ret, query_start, query_end))

\* ExceptHandlers without the handler of Exception
ExceptHandlersQueryErrorOnly(error, query_start, query_end) ==
  IF ~Raised(error) THEN error
  ELSE IF error.exc = "QueryError"
    THEN Ret(<< PyStr(""), PyStr("0"), PyStr("-1"),
                PyInt(error.code), PyStr(error.message), query_start, query_end >>)
  ELSE error

\* the two handlers of execute(); error is what the try block gave
ExceptHandlers(error, query_start, query_end) ==
  IF ~Raised(error) THEN error
  ELSE IF error.exc = "QueryError"
    THEN Ret(<< PyStr(""), PyStr("0"), PyStr("-1"),
                PyInt(error.code), PyStr(error.message), query_start, query_end >>)
  ELSE Ret(<< PyStr(""), PyStr("0"), PyStr("-1"),
              PyInt(UNKNOWN_ERROR), PyStr(error.exc \o ": " \o error.text),
              query_start, query_end >>)

\* execute() from the return of _execute_rest: what it gives its caller
ExecuteFinish(self, stage1, query_start, query_end) ==
  Once(Stages(self, stage1), LAMBDA st :
    Once(TryResult(st, query_start, query_end), LAMBDA error :
      ExceptHandlers(error, query_start, query_end)))

\* --------------------------------------------------------------- worksheet rows
\* The HTTP-parameters objects of the rows of this model.
RequestOf(method) == PyDict([method |-> PyStr(method), url |-> PyStr("u1")])
RequestFull(method) ==
  PyDict([method |-> PyStr(method), url |-> PyStr("u1"),
          data |-> PyDict([q |-> PyStr("x")]),
          headers |-> PyDict([accept |-> PyStr("application/json")]),
          parameters |-> PyDict([page |-> PyInt(1)])])

ResponseObjects ==
  { PyEmptyDict,
    PyDict([data |-> PyStr("$.data")]),
    PyDict([next |-> PyStr("$.next")]),
    PyDict([data |-> PyStr("$.data"), next |-> PyStr("$.next")]),
    PyDict([data |-> PyNone, next |-> PyStr("")]) }
MalformedResponses == {PyNone, PyStr("x"), PyList(<<>>), PyInt(5)}

WithResponse(request, response) == PyDict([request |-> request, response |-> response])
WithoutResponse(request) == PyDict([request |-> request])

\* descriptors with a request object that has method and url
WellFormedParameters ==
  {WithoutResponse(RequestOf("GET")), WithoutResponse(RequestFull("POST")),
   WithoutResponse(RequestOf("PUT"))}
    \cup {WithResponse(RequestOf("GET"), r) : r \in ResponseObjects \cup MalformedResponses}
    \cup {WithResponse(RequestFull("POST"),
                       PyDict([data |-> PyStr("$.data"), next |-> PyStr("$.next")])),
          WithResponse(RequestOf("PUT"), PyDict([next |-> PyStr("$.next")]))}

\* descriptors that lack request, request.method or request.url
DeficientParameters ==
  { PyList(<<>>), PyInt(5), PyEmptyDict,
    PyDict([response |-> PyDict([next |-> PyStr("$.next")])]),
    PyDict([request |-> PyStr("GET u1")]),
    PyDict([request |-> PyDict([url |-> PyStr("u1")])]),
    PyDict([request |-> PyDict([method |-> PyStr("GET")])]),
    PyDict([request |-> PyDict([method |-> PyStr("GET")]),
            response |-> PyDict([data |-> PyNone, next |-> PyNone])]),
    PyDict([request |-> PyDict([url |-> PyStr("u1")]),
            response |-> PyDict([next |-> PyStr("$.next")])]) }

HttpParameterCells ==
  {NotJson} \cup {JsonText(v) : v \in WellFormedParameters \cup DeficientParameters}
JsonPathQueries == {"", "$.data", "$["}
Aggregations == {"", "COUNT", "FOO"} \cup NumericOperators

\* rows of three cells, and rows of another width around one good descriptor
Rows3 == HttpParameterCells \X JsonPathQueries \X Aggregations
OddRows ==
  LET good == JsonText(WithoutResponse(RequestOf("GET")))
      paged == JsonText(WithResponse(RequestOf("GET"), PyDict([next |-> PyStr("$.next")])))
  IN {<<good>>, <<paged>>, <<NotJson>>, <<good, "$.data">>, <<paged, "">>,
      <<good, "$.data", "COUNT", "extra">>}
Rows == Rows3 \cup OddRows

HeaderRow == <<"http_parameters", "jsonpath_query", "aggregation">>
ResultHeader ==
  <<"result", "size", "length", "error_code", "error_message", "query_start", "query_end">>

\* -------------------------------------------------------------------- the state
VARIABLES
  sp_queries,   \* the cells of worksheet 'sp_queries', header row first
  sp_data,      \* the cells of worksheet 'sp_data'
  secrets,      \* GoogleSheet._secrets
  served,       \* the transport: for each URL, the outcomes it may answer with
  pc,           \* where execute_all_queries is
  queries,      \* the list get_queries() returned
  results,      \* the rows collected by execute_all_queries
  call,         \* the HTTP request under way
  result,       \* `result` of _execute_rest: the pages collected
  query_start,  \* `query_start` of the execute() under way
  now,          \* the clock timestamp() reads
  log,          \* per query, the HTTP requests made and the outcomes received
  stages        \* per query executed, what the stages of execute() gave

vars == <<sp_queries, sp_data, secrets, served, pc, queries, results, call, result,
          query_start, now, log, stages>>

NoCall == [none |-> TRUE]

StartState ==
  /\ sp_data = <<>>
  /\ secrets = PyEmptyDict
  /\ pc = "get_queries"
  /\ queries = <<>>
  /\ results = <<>>
  /\ call = NoCall
  /\ result = <<>>
  /\ query_start = Timestamp(0)
  /\ now = 1
  /\ log = <<>>
  /\ stages = <<>>

\* one query row, any transport
Init ==
  /\ StartState
  /\ sp_queries \in {<<HeaderRow, r>> : r \in Rows}
  /\ served = [u \in URLs |-> Outcomes]

\* the query being executed
Current == Len(stages) + 1
Requests(events) == SelectSeq(events, LAMBDA e : "req" \in DOMAIN e)
Responses(events) == SelectSeq(events, LAMBDA e : "resp" \in DOMAIN e)

\* GoogleSheet.get_queries
GetQueriesOf(cells, secret) ==
  LET body == IF Len(cells) = 0 THEN <<>> ELSE Tail(cells)
  IN [i \in 1..Len(body) |-> QueryInit(body[i], secret)]

GetQueries ==
  /\ pc = "get_queries"
  /\ queries' = GetQueriesOf(sp_queries, secrets)
  /\ pc' = "execute"
  /\ now' = now + 1
  /\ UNCHANGED <<sp_queries, sp_data, secrets, served, results, call, result,
                 query_start, log, stages>>

\* Collect that keeps the rows of successes only
CollectSuccesses(returned) ==
  IF Raised(returned)
    THEN pc' = "raised" /\ UNCHANGED results
    ELSE /\ pc' = "execute"
         /\ results' = IF returned.ret[4] = PyStr("0")
                          THEN Append(results, returned.ret)
                          ELSE results

\* execute() returns to the list comprehension of execute_all_queries: the row
\* is collected; an exception would leave execute_all_queries
Collect(returned) ==
  IF Raised(returned)
    THEN pc' = "raised" /\ UNCHANGED results
    ELSE pc' = "execute" /\ results' = Append(results, returned.ret)

\* r is where _execute_rest stands: at an HTTP call, or at its end
ExecuteStep(self, r) ==
  IF Calling(r)
    THEN /\ pc' = "request"
         /\ call' = r.call
         /\ result' = r.result
         /\ query_start' = Timestamp(now)
         /\ log' = Append(log, <<[req |-> r.call]>>)
         /\ UNCHANGED <<results, stages>>
    ELSE /\ \E returned \in {ExecuteFinish(self, r, Timestamp(now), Timestamp(now))} :
              Collect(returned)
         /\ stages' = Append(stages, Stages(self, r))
         /\ log' = Append(log, <<>>)
         /\ UNCHANGED <<call, result, query_start>>

\* query.execute(), from its entry to its first HTTP call or to its return
Execute ==
  /\ pc = "execute"
  /\ Current <= Len(queries)
  /\ \E r \in {ExecuteRestEnter(queries[Current])} : ExecuteStep(queries[Current], r)
  /\ now' = now + 1
  /\ UNCHANGED <<sp_queries, sp_data, secrets, served, queries>>

RespondStep(self, outcome, r) ==
  IF Calling(r)
    THEN /\ Len(Requests(log[Current])) < MaxRequests
         /\ call' = r.call
         /\ result' = r.result
         /\ log' = [log EXCEPT ![Current] = @ \o <<[resp |-> outcome], [req |-> r.call]>>]
         /\ UNCHANGED <<pc, results, query_start, stages>>
    ELSE /\ \E returned \in {ExecuteFinish(self, r, query_start, Timestamp(now))} :
              Collect(returned)
         /\ stages' = Append(stages, Stages(self, r))
         /\ log' = [log EXCEPT ![Current] = Append(@, [resp |-> outcome])]
         /\ call' = NoCall
         /\ result' = <<>>
         /\ UNCHANGED query_start

\* the HTTP call returns or raises, and execute() runs on to its next HTTP
\* call or to its return
Respond ==
  /\ pc = "request"
  /\ \E outcome \in served[call.url.str] :
       \E r \in {ExecuteRestResume(queries[Current], result, outcome)} :
         RespondStep(queries[Current], outcome, r)
  /\ now' = now + 1
  /\ UNCHANGED <<sp_queries, sp_data, secrets, served, queries>>

\* execute_all_queries, after the list comprehension: clear and fill 'sp_data'
WriteResults ==
  /\ pc = "execute"
  /\ Current > Len(queries)
  /\ sp_data' = <<ResultHeader>> \o results
  /\ pc' = "done"
  /\ now' = now + 1
  /\ UNCHANGED <<sp_queries, secrets, served, queries, results, call, result,
                 query_start, log, stages>>

Next == GetQueries \/ Execute \/ Respond \/ WriteResults

Spec == Init /\ [][Next]_vars

\* ------------------------------------------------------- a worksheet of several rows
BatchRows ==
  { <<JsonText(WithoutResponse(RequestOf("GET"))), "$.data", "SUM">>,
    <<JsonText(WithResponse(RequestOf("GET"),
                            PyDict([data |-> PyStr("$.data"), next |-> PyStr("$.next")]))),
      "", "COUNT">>,
    <<NotJson, "", "">>,
    <<JsonText(WithoutResponse(RequestOf("PUT"))), "", "">>,
    <<JsonText(WithoutResponse(RequestOf("GET"))), "$.data">> }
\* the transport of the batch: the first URL gives a page that points to the
\* second, a 404 or no connection; the second gives a last page or a 404
BatchServed ==
  ("u1" :> {Ok(DocA), NotFound, ConnectionFailure}) @@ ("u2" :> {Ok(DocC), NotFound})

Worksheets ==
  {<<>>} \cup {<<HeaderRow>> \o body :
                 body \in UNION {[1..n -> BatchRows] : n \in 0..MaxRows}}

InitBatch ==
  /\ StartState
  /\ sp_queries \in Worksheets
  /\ served = BatchServed

SpecBatch == InitBatch /\ [][Next]_vars

\* ------------------------------------------ one row, a deterministic transport
LiveRows ==
  { <<JsonText(WithResponse(RequestOf("GET"),
                            PyDict([data |-> PyStr("$.data"), next |-> PyStr("$.next")]))),
      "", "COUNT">>,
    <<JsonText(WithResponse(RequestFull("POST"), PyDict([next |-> PyStr("$.next")]))),
      "", "">>,
    <<JsonText(WithoutResponse(RequestOf("GET"))), "$.data", "SUM">> }

InitLive ==
  /\ StartState
  /\ sp_queries \in {<<HeaderRow, r>> : r \in LiveRows}
  /\ served \in {[u \in URLs |-> {f[u]}] : f \in [URLs -> Outcomes]}

\* The program is one thread that runs on, and every HTTP call returns or
\* raises: a step that can be taken is taken.
SpecLive == InitLive /\ [][Next]_vars /\ WF_vars(Next)

\* ===================================================================== claims
\* what the claims speak of, read off the worksheet, the log and the stages
NumRows == IF Len(sp_queries) = 0 THEN 0 ELSE Len(sp_queries) - 1
RowOf(i) == sp_queries[i + 1]
Executed == 1..Len(stages)
RequestsOf(i) == Requests(log[i])
OutcomesOf(i) == [j \in 1..Len(Responses(log[i])) |-> Responses(log[i])[j].resp]
ErrorCode(i) == results[i][4]
FirstFive(row) == SubSeq(row, 1, 5)

\* the exception that ended the stages of query i, if one did
Failure(i) ==
  IF Raised(stages[i].stage1) THEN stages[i].stage1
  ELSE IF Raised(stages[i].stage2) THEN stages[i].stage2
  ELSE stages[i].stage3

\* a page the transport served with success, and the document in it
SuccessfulPage(o) == IsResponse(o) /\ o.status \in 200..299 /\ o.body # NotJson
PageOf(o) == o.body.text
FieldOf(doc, name) ==
  IF IsDict(doc) /\ name \in DOMAIN doc.dict THEN doc.dict[name] ELSE PyNone
\* the paths of this model are "$.data" for the data and "$.next" for the next page
DataSubDocument(data_path, doc) == IF IsNone(data_path) THEN doc ELSE FieldOf(doc, "data")
NextPointer(doc) == FieldOf(doc, "next")
YieldsNext(o) == Truthy(NextPointer(PageOf(o)))

\* the descriptor of query i, where construction got that far
HasDescriptor(i) ==
  /\ "http_parameters" \in DOMAIN queries[i]
  /\ IsDict(queries[i].http_parameters)
  /\ {"request", "response"} \subseteq DOMAIN queries[i].http_parameters.dict
  /\ IsDict(queries[i].http_parameters.dict.response)
  /\ {"data", "next"} \subseteq DOMAIN queries[i].http_parameters.dict.response.dict
RequestPart(i) == queries[i].http_parameters.dict.request.dict
NextPath(i) == queries[i].http_parameters.dict.response.dict.next
DataPath(i) == queries[i].http_parameters.dict.response.dict.data
NextPathConfigured(i) == HasDescriptor(i) /\ Truthy(NextPath(i))

\* C1: execute() never raises to its caller and always returns a row of 7
\* fields; a failure that is no QueryError comes back with code UNKNOWN_ERROR
\* and the message "<type name>: <text>".
C1_ExecuteAlwaysReturnsRow ==
  /\ pc # "raised"
  /\ Len(results) = Len(stages)
  /\ \A i \in 1..Len(results) :
       /\ Len(results[i]) = 7
       /\ (Raised(Failure(i)) /\ Failure(i).exc # "QueryError")
            => /\ ErrorCode(i) = PyInt(UNKNOWN_ERROR)
               /\ results[i][5] = PyStr(Failure(i).exc \o ": " \o Failure(i).text)
       /\ \A j \in 1..Len(OutcomesOf(i)) :
            (~IsResponse(OutcomesOf(i)[j]) /\ ~OutcomesOf(i)[j].value_error)
              => /\ ErrorCode(i) = PyInt(UNKNOWN_ERROR)
                 /\ results[i][5] =
                      PyStr(OutcomesOf(i)[j].raises \o ": " \o OutcomesOf(i)[j].text)

\* C1 witness: a query whose HTTP call raised a network-layer exception has
\* returned its row, and so has a query built from a row that is not JSON.
C1_Witness ==
  \E i \in 1..Len(results) :
    /\ Len(OutcomesOf(i)) >= 1
    /\ OutcomesOf(i)[Len(OutcomesOf(i))] = ConnectionFailure
    /\ ErrorCode(i) = PyInt(UNKNOWN_ERROR)

\* the row execute() gives for `row` when the transport answers its HTTP
\* calls with `outcomes`, one after the other
RECURSIVE Replay(_, _, _)
Replay(self, r, outcomes) ==
  IF Calling(r) /\ outcomes # <<>>
    THEN Replay(self, ExecuteRestResume(self, r.result, Head(outcomes)), Tail(outcomes))
    ELSE r
OutcomeOfRow(row, outcomes) ==
  ExecuteFinish(QueryInit(row, PyEmptyDict),
                Replay(QueryInit(row, PyEmptyDict),
                       ExecuteRestEnter(QueryInit(row, PyEmptyDict)), outcomes),
                Timestamp(0), Timestamp(0)).ret

\* C2: the runner builds one Query per row, in order, and collects one result
\* row per row, result row i being the outcome of executing row i; no row's
\* failure stops the batch, which ends with exactly N result rows written.
C2_OneResultPerRowInOrder ==
  /\ pc # "raised"
  /\ pc # "get_queries" =>
       /\ Len(queries) = NumRows
       /\ \A i \in 1..NumRows : queries[i] = QueryInit(RowOf(i), secrets)
  /\ Len(results) <= NumRows
  /\ \A i \in 1..Len(results) :
       FirstFive(results[i]) = FirstFive(OutcomeOfRow(RowOf(i), OutcomesOf(i)))
  /\ pc = "done" =>
       /\ Len(results) = NumRows
       /\ sp_data = <<ResultHeader>> \o results

\* C2 witness: a batch of three rows is done, its first row failed, its second
\* row succeeded and its third row failed.
C2_Witness ==
  /\ pc = "done"
  /\ NumRows = 3
  /\ ErrorCode(1) # PyStr("0")
  /\ ErrorCode(2) = PyStr("0")
  /\ ErrorCode(3) # PyStr("0")

\* the rows C3 calls invalid
DeficientCell(cell) ==
  \/ cell = NotJson
  \/ ~IsDict(cell.text)
  \/ "request" \notin DOMAIN cell.text.dict
  \/ ~IsDict(cell.text.dict.request)
  \/ ~({"method", "url"} \subseteq DOMAIN cell.text.dict.request.dict)
InvalidRow(row) == Len(row) # 3 \/ DeficientCell(row[1])

\* C3 (as claimed): executing an invalid row gives error code INVALID_QUERY
\* and issues no HTTP request.
C3_InvalidRowGivesInvalidQuery ==
  \A i \in 1..Len(results) :
    InvalidRow(RowOf(i)) =>
      /\ ErrorCode(i) = PyInt(INVALID_QUERY)
      /\ RequestsOf(i) = <<>>

\* the log of query i is request, response, request, response, ...
Alternates(i) ==
  \A j \in 1..Len(log[i]) : ("req" \in DOMAIN log[i][j]) <=> (j % 2 = 1)

\* the transport served query i a chain of k pages: each a success, all but
\* the last yielding a next-page URL
ChainOfPages(i, k) ==
  /\ k >= 1
  /\ Len(OutcomesOf(i)) = k
  /\ \A j \in 1..k : SuccessfulPage(OutcomesOf(i)[j])
  /\ \A j \in 1..(k - 1) : YieldsNext(OutcomesOf(i)[j])
  /\ ~YieldsNext(OutcomesOf(i)[k])

\* C4: with a next path configured and a chain of k pages served, the fetch
\* stage makes exactly k requests, the first to request.url and each next one
\* to the URL taken from the page before, never a request before the answer to
\* the one before it, and gives the k data sub-documents in page order.
C4_PaginationFollowsChain ==
  /\ \A i \in 1..Len(log) : Alternates(i)
  /\ \A i \in Executed : \A k \in 1..MaxRequests :
       (NextPathConfigured(i) /\ ChainOfPages(i, k)) =>
         /\ Len(RequestsOf(i)) = k
         /\ RequestsOf(i)[1].req.url = RequestPart(i).url
         /\ \A j \in 1..(k - 1) :
              RequestsOf(i)[j + 1].req.url = NextPointer(PageOf(OutcomesOf(i)[j]))
         /\ stages[i].stage1 =
              Ret(PyList([j \in 1..k |->
                            DataSubDocument(DataPath(i), PageOf(OutcomesOf(i)[j]))]))

\* C4 witness: a paginated query was served a chain of three pages.
C4_Witness ==
  \E i \in Executed :
    /\ NextPathConfigured(i)
    /\ IsStr(DataPath(i))
    /\ ChainOfPages(i, 3)
    /\ Len(stages[i].stage1.ret.list) = 3

\* C5 (as claimed): without a next path the fetch stage makes one request and
\* gives the data sub-document that response.data_path selects.
C5_SinglePageUsesDataPath ==
  \A i \in Executed :
    (/\ HasDescriptor(i)
     /\ ~Truthy(NextPath(i))
     /\ Len(OutcomesOf(i)) >= 1
     /\ SuccessfulPage(OutcomesOf(i)[1]))
      => /\ Len(RequestsOf(i)) = 1
         /\ stages[i].stage1 = Ret(DataSubDocument(DataPath(i), PageOf(OutcomesOf(i)[1])))

\* a value Decimal() takes: an int, or a str that spells a number
Coercible(v) == IsInt(v) \/ (IsStr(v) /\ v.str \in {"2", "3"})
AggregationOf(i) ==
  IF "aggregation" \in DOMAIN queries[i] THEN queries[i].aggregation ELSE "(unset)"
AggregationInput(i) == stages[i].stage2

\* C6 (as claimed): STDEV or VAR of a sequence of exactly one number gives
\* error code AGGREGATION_ARITHMETIC_ERROR.
C6_SingleElementIsArithmeticError ==
  \A i \in 1..Len(results) :
    (/\ AggregationOf(i) \in {"STDEV", "VAR"}
     /\ Returned(AggregationInput(i))
     /\ IsList(AggregationInput(i).ret)
     /\ Len(AggregationInput(i).ret.list) = 1
     /\ Coercible(AggregationInput(i).ret.list[1]))
      => ErrorCode(i) = PyInt(AGGREGATION_ARITHMETIC_ERROR)

\* C7 (as claimed): an aggregation input that is no sequence, or for the
\* numeric operators a sequence with an element that is no number, gives error
\* code AGGREGATION_WRONG_DATATYPE; COUNT of a sequence gives its length.
C7_WrongDatatypeIsClassified ==
  \A i \in 1..Len(results) :
    (AggregationOf(i) \in NumericOperators \cup {"COUNT"} /\ Returned(AggregationInput(i)))
      => /\ ~IsList(AggregationInput(i).ret)
              => ErrorCode(i) = PyInt(AGGREGATION_WRONG_DATATYPE)
         /\ (/\ IsList(AggregationInput(i).ret)
             /\ AggregationOf(i) # "COUNT"
             /\ \E j \in 1..Len(AggregationInput(i).ret.list) :
                  ~Coercible(AggregationInput(i).ret.list[j]))
              => ErrorCode(i) = PyInt(AGGREGATION_WRONG_DATATYPE)
         /\ (IsList(AggregationInput(i).ret) /\ AggregationOf(i) = "COUNT")
              => /\ ErrorCode(i) = PyStr("0")
                 /\ results[i][1] = PyStr(ToString(Len(AggregationInput(i).ret.list)))

\* the failure row for code `code` and message `message`, less its timestamps
FailureFields(code, message) == <<PyStr(""), PyStr("0"), PyStr("-1"), code, PyStr(message)>>

WellFormedRow(row) == Len(row) = 3 /\ ~DeficientCell(row[1])
ResponseGiven(row) == "response" \in DOMAIN row[1].text.dict
ResponseOf(row) == row[1].text.dict.response
\* request.<name> as the descriptor has it: the row's, or an empty mapping
RequestDefaulted(i, name) ==
  /\ name \in DOMAIN RequestPart(i)
  /\ RequestPart(i)[name] =
       IF name \in DOMAIN RowOf(i)[1].text.dict.request.dict
         THEN RowOf(i)[1].text.dict.request.dict[name]
         ELSE PyEmptyDict
\* query i is valid, with the request defaults applied
ValidWithDefaults(i) ==
  /\ queries[i].valid
  /\ HasDescriptor(i)
  /\ \A name \in {"data", "headers", "parameters"} : RequestDefaulted(i, name)
\* query i ran as a single-page, whole-document query
SinglePageWholeDocument(i) ==
  /\ DataPath(i) = PyNone /\ NextPath(i) = PyNone
  /\ i \in Executed =>
       /\ Len(RequestsOf(i)) <= 1
       /\ Returned(stages[i].stage1) =>
            stages[i].stage1.ret = PageOf(OutcomesOf(i)[1])

RequestFailed(o) ==
  ~IsResponse(o) \/ o.status \in 400..599 \/ o.body = NotJson
\* the one outcome the deterministic transport has for url
Served(url) == CHOOSE o \in served[url] : TRUE
\* the chain of next pointers from url comes back to a URL in `seen`
RECURSIVE Loops(_, _)
Loops(url, seen) ==
  /\ ~RequestFailed(Served(url))
  /\ Truthy(NextPointer(PageOf(Served(url))))
  /\ \/ NextPointer(PageOf(Served(url))).str \in seen \cup {url}
     \/ Loops(NextPointer(PageOf(Served(url))).str, seen \cup {url})
\* row 1 is a paginated query whose chain of pages is a cycle
CyclicQuery ==
  /\ Len(queries) = 1
  /\ NextPathConfigured(1)
  /\ Loops(RequestPart(1).url.str, {})
\* row 1 is a paginated query whose chain of pages ends
FiniteQuery ==
  /\ Len(queries) = 1
  /\ NextPathConfigured(1)
  /\ ~Loops(RequestPart(1).url.str, {})
\* the last outcome the query under way received
LastOutcome == log'[Len(stages) + 1][Len(log[Len(stages) + 1]) + 1].resp

\* C10: the pagination loop goes on to another request exactly when the page
\* received yields a next-page URL and the request did not fail; when the
\* chain of next pointers ends execute() returns, and when it comes back to a
\* URL already requested execute() never returns.
C10_LoopStopsOnlyAtChainEnd ==
  /\ [][(pc = "request" /\ NextPathConfigured(Len(stages) + 1))
          => ((pc' = "request")
                <=> (~RequestFailed(LastOutcome) /\ YieldsNext(LastOutcome)))]_vars
  /\ (pc = "request" /\ FiniteQuery) ~> (Len(results) = 1)
  /\ [](CyclicQuery => Len(stages) = 0)

\* C10 witness: under a transport whose pages point back to the first URL,
\* the loop has made every request the bound lets it make.
C10_Witness ==
  /\ CyclicQuery
  /\ pc = "request"
  /\ Len(RequestsOf(1)) = MaxRequests
====
